---- MODULE Spec2Model ----
(***************************************************************************)
(* Model of highcharts.chart.Chart (src/highcharts/chart.py) and of        *)
(* ArcDiagramData.from_list                                                *)
(* (src/highcharts_core/options/series/data/arcdiagram.py).                *)
(*                                                                         *)
(* Python values are tagged records [t |-> <type>, v |-> <payload>]:       *)
(*   none, int, str, bool, list (v a sequence), dict (v a function from    *)
(*   key strings to values) and raise (an exception leaving the call, v    *)
(*   its class name).                                                      *)
(***************************************************************************)
EXTENDS Integers, Sequences, FiniteSets, TLC

VARIABLES
    copied,     \* the last Chart._copy_dict_key call: its arguments and what it returned
    chart,      \* the Chart instance: container, options, callback, variable_name
    literal,    \* the last Chart.to_js_literal call: the chart it saw and the string returned
    previous,   \* the to_js_literal call before that one
    download,   \* the last Chart.download_chart call: its server_instance and what it did
    listed      \* the last ArcDiagramData.from_list call: its input and outcome

vars == <<copied, chart, literal, previous, download, listed>>

----------------------------------------------------------------------------
(* Bounds of the model *)

\* longest list of numbers used as a data / list-valued option
MaxListLen == 2
\* longest list of series in original and in other
MaxSeries == 2

----------------------------------------------------------------------------
(* Python values *)

NoneV == [t |-> "none", v |-> 0]
IntV(n) == [t |-> "int", v |-> n]
StrV(s) == [t |-> "str", v |-> s]
BoolV(b) == [t |-> "bool", v |-> b]
ListV(s) == [t |-> "list", v |-> s]
DictV(f) == [t |-> "dict", v |-> f]
Raised(cls) == [t |-> "raise", v |-> cls]

EmptyDict == DictV(<<>>)

IsNone(x) == x.t = "none"
IsList(x) == x.t = "list"
IsRaised(x) == x.t = "raise"

\* Python truthiness: None, 0, '', False, [] and {} are falsy
Truthy(x) ==
    IF x.t = "none" THEN FALSE
    ELSE IF x.t = "int" THEN x.v # 0
    ELSE IF x.t = "str" THEN x.v # ""
    ELSE IF x.t = "bool" THEN x.v
    ELSE IF x.t = "list" THEN Len(x.v) > 0
    ELSE IF x.t = "dict" THEN DOMAIN x.v # {}
    ELSE TRUE

Max(a, b) == IF a >= b THEN a ELSE b

\* what a call hands back: the value returned (or the exception raised), the number
\* of recursive _copy_dict_key calls made beneath it and how deep they nested
Out(val, calls, depth) == [val |-> val, calls |-> calls, depth |-> depth]

----------------------------------------------------------------------------
(* Chart._copy_dict_key *)

\* kwargs.get('preserve_data', True)
PreserveData(kwargs) ==
    IF "preserve_data" \in DOMAIN kwargs THEN kwargs["preserve_data"] ELSE TRUE

\* isinstance(original_value, (dict, UserDict))
IsDict(x) == x.t = "dict"

\* other.get(key, None)
OtherGet(other, key) ==
    IF key \in DOMAIN other.v THEN other.v[key] ELSE NoneV

\* a slip: only 'data' is special-cased, 'points' falls through to the generic branches
IsPreservedKeyDataOnly(key, preserve_data) == key = "data" /\ preserve_data

\* key == 'data' and preserve_data / key == 'points' and preserve_data
IsPreservedKey(key, preserve_data) ==
    (key = "data" /\ preserve_data) \/ (key = "points" /\ preserve_data)

\* checkers.is_iterable(original_value, forbid_literals = (str, bytes, dict, UserDict))
IsIterable(x) == x.t = "list"

\* checkers.are_dicts_equivalent(original_item, other_item)
AreDictsEquivalent(a, b) == IsDict(a) /\ IsDict(b) /\ a = b

\* the inner loop over other_value: the index of the first equivalent item (the
\* loop breaks there), 0 when none matches
FirstMatch(original_item, other_value) ==
    LET hits == {j \in 1..Len(other_value) :
                    AreDictsEquivalent(original_item, other_value[j])}
    IN  IF hits = {} THEN 0 ELSE CHOOSE j \in hits : \A k \in hits : j <= k

\* a slip: the inner loop lacks its break, so an item of original is paired with
\* every equivalent item of other
MatchedSeriesNoBreak(original_value, other_value) ==
    LET Pairs(item) ==
            LET IsHit(other_item) == AreDictsEquivalent(item, other_item)
                hits == SelectSeq(other_value, IsHit)
            IN  [j \in 1..Len(hits) |-> <<item, hits[j]>>]
        Flat[i \in 0..Len(original_value)] ==
            IF i = 0 THEN <<>> ELSE Flat[i - 1] \o Pairs(original_value[i])
    IN  Flat[Len(original_value)]

\* matched_series: the (original_item, other_item) pairs, in original's order
MatchedSeries(original_value, other_value) ==
    LET IsMatched(item) == FirstMatch(item, other_value) # 0
        found == SelectSeq(original_value, IsMatched)
    IN  [i \in 1..Len(found) |->
            <<found[i], other_value[FirstMatch(found[i], other_value)]>>]

\* new_series: the items of original no item of other is equivalent to
NewSeries(original_value, other_value) ==
    LET IsNew(item) == FirstMatch(item, other_value) = 0
    IN  SelectSeq(original_value, IsNew)

\* the list branch: a new list of original's items when overwriting, else other's value
IterableBranch(original_value, other_value, overwrite) ==
    IF overwrite THEN ListV([i \in 1..Len(original_value.v) |-> original_value.v[i]])
    ELSE other_value

\* a slip: other's truthy value is kept whatever overwrite says
ScalarBranchKeepsOther(original_value, other_value, overwrite) ==
    IF Truthy(other_value) THEN other_value ELSE original_value

\* the last two branches: other's value when it is truthy and overwrite is off
ScalarBranch(original_value, other_value, overwrite) ==
    IF Truthy(other_value) /\ ~overwrite THEN other_value ELSE original_value

RECURSIVE CopyDictKey(_, _, _, _, _)
RECURSIVE NewItem(_, _, _, _, _)
RECURSIVE NewValue(_, _, _, _, _, _)
RECURSIVE UpdatedSeries(_, _, _)

\* for subkey in original_item: new_item[subkey] = cls._copy_dict_key(subkey,
\* original_item, new_item, ...): the target dict is the item being built
NewItem(todo, original_item, new_item, overwrite, kwargs) ==
    IF todo = {} THEN Out(DictV(new_item), 0, 0)
    ELSE LET subkey == CHOOSE k \in todo : TRUE
             r == CopyDictKey(subkey, original_item, DictV(new_item), overwrite, kwargs)
         IN  IF IsRaised(r.val) THEN Out(r.val, 1 + r.calls, 1 + r.depth)
             ELSE LET rest == NewItem(todo \ {subkey}, original_item,
                                      (subkey :> r.val) @@ new_item, overwrite, kwargs)
                  IN  Out(rest.val, 1 + r.calls + rest.calls,
                          Max(1 + r.depth, rest.depth))

\* for subkey in original_value: new_value[subkey] = cls._copy_dict_key(subkey,
\* original_value, other_value, ...)
NewValue(todo, original_value, other_value, new_value, overwrite, kwargs) ==
    IF todo = {} THEN Out(DictV(new_value), 0, 0)
    ELSE LET subkey == CHOOSE k \in todo : TRUE
             r == CopyDictKey(subkey, original_value, other_value, overwrite, kwargs)
         IN  IF IsRaised(r.val) THEN Out(r.val, 1 + r.calls, 1 + r.depth)
             ELSE LET rest == NewValue(todo \ {subkey}, original_value, other_value,
                                       (subkey :> r.val) @@ new_value, overwrite, kwargs)
                  IN  Out(rest.val, 1 + r.calls + rest.calls,
                          Max(1 + r.depth, rest.depth))

\* for items in matched_series: ... updated_series.append(new_item)
UpdatedSeries(matched_series, overwrite, kwargs) ==
    IF matched_series = <<>> THEN Out(ListV(<<>>), 0, 0)
    ELSE LET original_item == Head(matched_series)[1]
             r == NewItem(DOMAIN original_item.v, original_item, <<>>, overwrite, kwargs)
         IN  IF IsRaised(r.val) THEN r
             ELSE LET rest == UpdatedSeries(Tail(matched_series), overwrite, kwargs)
                  IN  IF IsRaised(rest.val)
                      THEN Out(rest.val, r.calls + rest.calls, Max(r.depth, rest.depth))
                      ELSE Out(ListV(<<r.val>> \o rest.val.v), r.calls + rest.calls,
                               Max(r.depth, rest.depth))

\* the 'series' branch; a series list of the same length as original's falls out of
\* the branch, and out of the function, with no return statement: None.
\* original_value is a list of series and other_value a list of series or None.
SeriesBranch(original_value, other_value, overwrite, kwargs) ==
    IF ~Truthy(other_value)
    THEN Out(ListV([i \in 1..Len(original_value.v) |-> original_value.v[i]]), 0, 0)
    ELSE IF Len(other_value.v) # Len(original_value.v)
    THEN LET matched_series == MatchedSeries(original_value.v, other_value.v)
             new_series == NewSeries(original_value.v, other_value.v)
             updated_series == UpdatedSeries(matched_series, overwrite, kwargs)
         IN  IF IsRaised(updated_series.val) THEN updated_series
             ELSE Out(ListV(updated_series.val.v \o new_series),
                      updated_series.calls, updated_series.depth)
    ELSE Out(NoneV, 0, 0)

CopyDictKey(key, original, other, overwrite, kwargs) ==
    IF ~IsDict(other) THEN Out(Raised("AttributeError"), 0, 0)
    ELSE LET preserve_data == PreserveData(kwargs)
             original_value == original.v[key]
             other_value == OtherGet(other, key)
         IN  IF IsPreservedKey(key, preserve_data) THEN Out(other_value, 0, 0)
             ELSE IF key = "series" /\ preserve_data
             THEN SeriesBranch(original_value, other_value, overwrite, kwargs)
             ELSE IF IsDict(original_value)
             THEN NewValue(DOMAIN original_value.v, original_value, other_value,
                           <<>>, overwrite, kwargs)
             ELSE IF IsIterable(original_value)
             THEN Out(IterableBranch(original_value, other_value, overwrite), 0, 0)
             ELSE Out(ScalarBranch(original_value, other_value, overwrite), 0, 0)

----------------------------------------------------------------------------
(* The bounded universe of configuration trees handed to _copy_dict_key *)

SeqsUpTo(S, n) == UNION {[1..m -> S] : m \in 0..n}

\* every dict whose keys are among keys and whose values are among vals
Dicts(keys, vals) == {DictV(f) : f \in UNION {[ks -> vals] : ks \in SUBSET keys}}

Scalars ==
    {NoneV, IntV(0), IntV(1), StrV(""), StrV("a"), BoolV(FALSE), BoolV(TRUE)}

DataLists == {ListV(s) : s \in SeqsUpTo({IntV(1), IntV(2)}, MaxListLen)}

Leaves == Scalars \cup DataLists

\* series items: a name and its data, or a name and a nested marker configuration
SeriesItems ==
    {DictV([name |-> StrV("a"), data |-> ListV(<<IntV(1)>>)]),
     DictV([name |-> StrV("a"), data |-> ListV(<<IntV(2)>>)]),
     DictV([name |-> StrV("b"), data |-> ListV(<<IntV(1)>>)]),
     DictV([name |-> StrV("b"), marker |-> DictV([enabled |-> BoolV(TRUE)])])}

SeriesLists == {ListV(s) : s \in SeqsUpTo(SeriesItems, MaxSeries)}

\* nested option dicts of the source chart, one and two levels deep
OriginalLeaves == {IntV(1), ListV(<<IntV(1)>>)}
OriginalDicts1 == Dicts({"data", "text"}, OriginalLeaves)
OriginalDicts ==
    OriginalDicts1 \cup
    {DictV(("style" :> d) @@ f.v) : d \in OriginalDicts1, f \in Dicts({"text"}, OriginalLeaves)}

\* nested option dicts of the target chart; a target may hold a non-dict where the
\* source holds a dict
OtherLeaves == {NoneV, IntV(0), IntV(2), ListV(<<IntV(2)>>)}
OtherDicts1 == Dicts({"data", "text"}, OtherLeaves)
OtherDicts ==
    OtherDicts1 \cup
    {DictV(("style" :> d) @@ f.v) :
        d \in OtherDicts1 \cup {NoneV, IntV(0)}, f \in Dicts({"text"}, OtherLeaves)}

\* other either lacks the key or holds a value under it
Holding(key, vals) == {EmptyDict} \cup {DictV(key :> w) : w \in vals}

\* the (key, original, other) triples of the calls modelled
CallsOf(keys, originals, others) ==
    UNION {{[key |-> k, original |-> DictV(k :> ov), other |-> ot] :
                ov \in originals, ot \in Holding(k, others)} : k \in keys}

LeafCalls ==
    CallsOf({"data", "points", "title"}, Leaves,
            Leaves \cup {DictV([text |-> IntV(2)])})

SeriesCalls == CallsOf({"series"}, SeriesLists, SeriesLists \cup {NoneV})

DictCalls ==
    CallsOf({"data", "title"}, OriginalDicts, OtherDicts \cup {NoneV, IntV(0)})

CopyCalls == LeafCalls \cup SeriesCalls \cup DictCalls

KwargsSet == {<<>>} \cup {[preserve_data |-> b] : b \in BOOLEAN}

----------------------------------------------------------------------------
(* State machine *)

NotCalled == [called |-> FALSE]

\* a HighchartsOptions instance and a CallbackFunction instance, each known by the
\* JavaScript literal its own to_js_literal returns
OptionsObject == [t |-> "options", v |-> "{title: {}}"]
CallbackObject == [t |-> "callback", v |-> "function() {}"]

\* Chart(): every property None
NewChart ==
    [callback |-> NoneV, container |-> NoneV, options |-> NoneV, variable_name |-> NoneV]

\* the arguments of a _copy_dict_key call that has not run yet
CopyArguments ==
    {[called |-> FALSE, key |-> c.key, original |-> c.original, other |-> c.other,
      overwrite |-> overwrite, kwargs |-> kwargs] :
        c \in CopyCalls, overwrite \in BOOLEAN, kwargs \in KwargsSet}

Init ==
    /\ copied \in CopyArguments
    /\ chart = NewChart
    /\ literal = NotCalled
    /\ previous = NotCalled
    /\ download = NotCalled
    /\ listed = NotCalled

\* the call Chart._copy_dict_key(key, original, other, overwrite = ..., **kwargs)
copy_dict_key ==
    /\ ~copied.called
    /\ copied' = [copied EXCEPT !.called = TRUE] @@
                 [ret |-> CopyDictKey(copied.key, copied.original, copied.other,
                                      copied.overwrite, copied.kwargs)]
    /\ UNCHANGED <<chart, literal, previous, download, listed>>

Next == copy_dict_key

Spec == Init /\ [][Next]_vars

----------------------------------------------------------------------------
(* The Chart instance and Chart.to_js_literal *)

\* validators.string(value, allow_empty = True) and validators.variable_name(value,
\* allow_empty = True): an empty value is stored as None
EmptyToNone(value) == IF Truthy(value) THEN value ELSE NoneV

\* JavaScript text is a sequence of pieces; a formatted value is a piece of its own
ContainerAsStr(c) ==
    IF Truthy(c.container) THEN <<"renderTo = '", c.container.v, "'">> ELSE <<>>

OptionsAsStr(c) ==
    IF Truthy(c.options) THEN <<"options = ", c.options.v>> ELSE <<>>

CallbackAsStr(c) ==
    IF Truthy(c.callback) THEN <<"callback = ", c.callback.v>> ELSE <<>>

\* signature_elements: one for each of container, options, callback that is set
SignatureElements(c) ==
    (IF Truthy(c.container) THEN 1 ELSE 0) + (IF Truthy(c.options) THEN 1 ELSE 0)
        + (IF Truthy(c.callback) THEN 1 ELSE 0)

\* signature: 'new Highcharts.chart(' ... ');'
Signature(c) ==
    LET sep == IF SignatureElements(c) > 1 THEN <<",\n">> ELSE <<>>
        s1 == <<"new Highcharts.chart(">>
        s2 == IF ContainerAsStr(c) # <<>> THEN s1 \o ContainerAsStr(c) \o sep ELSE s1
        s3 == IF OptionsAsStr(c) # <<>> THEN s2 \o OptionsAsStr(c) \o sep ELSE s2
        s4 == IF CallbackAsStr(c) # <<>> THEN s3 \o CallbackAsStr(c) ELSE s3
    IN  s4 \o <<");">>

\* a slip: the assignment is written whether or not variable_name is set
PrefixAlways(c) ==
    <<"var ", IF IsNone(c.variable_name) THEN "None" ELSE c.variable_name.v, " = ">>

\* prefix: 'var <variable_name> = ' when variable_name is set, else ''
Prefix(c) ==
    IF Truthy(c.variable_name) THEN <<"var ", c.variable_name.v, " = ">> ELSE <<>>

\* as_str = prefix + signature
ToJsLiteral(c) == Prefix(c) \o Signature(c)

InitLiteral ==
    /\ chart = NewChart
    /\ literal = NotCalled
    /\ previous = NotCalled
    /\ copied = NotCalled
    /\ download = NotCalled
    /\ listed = NotCalled

set_callback ==
    \E value \in {NoneV, CallbackObject} :
        /\ chart' = [chart EXCEPT !.callback = value]
        /\ UNCHANGED <<copied, literal, previous, download, listed>>

set_options ==
    \E value \in {NoneV, OptionsObject} :
        /\ chart' = [chart EXCEPT !.options = value]
        /\ UNCHANGED <<copied, literal, previous, download, listed>>

set_container ==
    \E value \in {NoneV, StrV(""), StrV("target")} :
        /\ chart' = [chart EXCEPT !.container = EmptyToNone(value)]
        /\ UNCHANGED <<copied, literal, previous, download, listed>>

set_variable_name ==
    \E value \in {NoneV, StrV(""), StrV("chart1")} :
        /\ chart' = [chart EXCEPT !.variable_name = EmptyToNone(value)]
        /\ UNCHANGED <<copied, literal, previous, download, listed>>

\* chart.to_js_literal(filename): the string is returned and, with a filename,
\* written to that file as well
to_js_literal ==
    \E filename \in {NoneV, StrV("chart.js")} :
        /\ literal' = [called |-> TRUE, chart |-> chart, filename |-> filename,
                       out |-> ToJsLiteral(chart),
                       written |-> IF Truthy(filename) THEN ToJsLiteral(chart) ELSE <<>>]
        /\ previous' = literal
        /\ UNCHANGED <<copied, chart, download, listed>>

NextLiteral ==
    \/ set_callback
    \/ set_options
    \/ set_container
    \/ set_variable_name
    \/ to_js_literal

SpecLiteral == InitLiteral /\ [][NextLiteral]_vars

----------------------------------------------------------------------------
(* Chart.download_chart *)

\* an already-configured ExportServer instance (an object: truthy)
ExportServerObject == [t |-> "ExportServer", v |-> "configured"]

\* isinstance(server_instance, ExportServer)
IsExportServer(x) == x.t = "ExportServer"

\* what a download_chart call does: the export request it issues (with the
\* arguments handed on) or the exception it raises
DownloadChart(a) ==
    IF ~Truthy(a.server_instance)
    THEN [raised |-> "", invoked |-> "ExportServer.get_chart",
          passed |-> [filename |-> a.filename, auth_user |-> a.auth_user,
                      auth_password |-> a.auth_password, timeout |-> a.timeout,
                      kwargs |-> a.kwargs]]
    ELSE IF ~IsExportServer(a.server_instance)
    THEN [raised |-> "HighchartsValueError", invoked |-> "", passed |-> <<>>]
    ELSE [raised |-> "", invoked |-> "server_instance.request_chart",
          passed |-> [filename |-> a.filename, auth_user |-> a.auth_user,
                      auth_password |-> a.auth_password, timeout |-> a.timeout]]

\* the values a caller may hand over as server_instance
ServerInstances ==
    {NoneV, ExportServerObject, StrV(""), StrV("https://export.example"), IntV(0),
     IntV(1), BoolV(FALSE), BoolV(TRUE), ListV(<<>>), EmptyDict,
     DictV([url |-> StrV("https://export.example")])}

DownloadArguments ==
    {[called |-> FALSE, server_instance |-> srv, filename |-> fn, auth_user |-> u,
      auth_password |-> pw, timeout |-> t, kwargs |-> kw] :
        srv \in ServerInstances, fn \in {NoneV, StrV("chart.png")},
        u \in {NoneV, StrV("user")}, pw \in {NoneV, StrV("secret")},
        t \in {NoneV, StrV("0.5")}, kw \in {<<>>, [format |-> StrV("png")]}}

InitDownload ==
    /\ download \in DownloadArguments
    /\ copied = NotCalled
    /\ chart = NewChart
    /\ literal = NotCalled
    /\ previous = NotCalled
    /\ listed = NotCalled

\* the call chart.download_chart(filename, auth_user, auth_password, timeout,
\* server_instance, **kwargs)
download_chart ==
    /\ ~download.called
    /\ download' = [download EXCEPT !.called = TRUE] @@ [did |-> DownloadChart(download)]
    /\ UNCHANGED <<copied, chart, literal, previous, listed>>

NextDownload == download_chart

SpecDownload == InitDownload /\ [][NextDownload]_vars

----------------------------------------------------------------------------
(* ArcDiagramData.from_list *)

\* longest input list handed to from_list
MaxItems == 3

\* a data point object, known by the keyword arguments it was built from
PointV(kwargs) == [t |-> "point", v |-> kwargs]

\* constants.EnforcedNull
EnforcedNull == [t |-> "EnforcedNullType", v |-> 0]

\* checkers.is_numeric(item)
IsNumeric(x) == x.t = "int"

\* what one pass of the loop body makes of item: the data point appended, or the
\* HighchartsValueError raised
AsObj(item) ==
    IF item.t = "point" THEN item
    ELSE IF IsDict(item) THEN PointV(item.v)
    ELSE IF IsNone(item) \/ item.t = "EnforcedNullType" THEN PointV([y |-> NoneV])
    ELSE IF IsNumeric(item) THEN PointV([y |-> item])
    ELSE IF IsIterable(item)
    THEN IF Len(item.v) = 3
         THEN PointV([from_ |-> item.v[1], to |-> item.v[2], weight |-> item.v[3]])
         ELSE Raised("HighchartsValueError")
    ELSE Raised("HighchartsValueError")

\* a slip: an item that cannot be coerced is skipped instead of raising
RECURSIVE CollectSkipping(_, _)
CollectSkipping(items, collection) ==
    IF items = <<>> THEN ListV(collection)
    ELSE LET as_obj == AsObj(Head(items))
         IN  IF IsRaised(as_obj) THEN CollectSkipping(Tail(items), collection)
             ELSE CollectSkipping(Tail(items), Append(collection, as_obj))

\* for item in value: ... collection.append(as_obj); return collection
RECURSIVE Collect(_, _)
Collect(items, collection) ==
    IF items = <<>> THEN ListV(collection)
    ELSE LET as_obj == AsObj(Head(items))
         IN  IF IsRaised(as_obj) THEN as_obj
             ELSE Collect(Tail(items), Append(collection, as_obj))

\* from_list(value), for value None, a list, or one number (not iterable, so
\* wrapped in a list); a str value, which is first parsed as JSON, is not modelled
FromList(value) ==
    IF ~Truthy(value) THEN ListV(<<>>)
    ELSE IF ~IsIterable(value) THEN Collect(<<value>>, <<>>)
    ELSE Collect(value.v, <<>>)

\* the items of the modelled inputs: a data point, a dict, None, EnforcedNull,
\* numbers, arrays of 3 and of other lengths, and a string that is no number
ListItems ==
    {PointV([from_ |-> StrV("a"), to |-> StrV("b"), weight |-> IntV(1)]),
     DictV([from_ |-> StrV("a"), to |-> StrV("c")]),
     NoneV, EnforcedNull, IntV(0), IntV(7),
     ListV(<<StrV("a"), StrV("b"), IntV(2)>>),
     ListV(<<StrV("a"), StrV("b")>>),
     ListV(<<>>),
     StrV("abc")}

FromListArguments ==
    {[called |-> FALSE, value |-> x] :
        x \in {NoneV, IntV(0), IntV(7)}
              \cup {ListV(q) : q \in SeqsUpTo(ListItems, MaxItems)}}

InitFromList ==
    /\ listed \in FromListArguments
    /\ copied = NotCalled
    /\ chart = NewChart
    /\ literal = NotCalled
    /\ previous = NotCalled
    /\ download = NotCalled

\* the call ArcDiagramData.from_list(value)
from_list ==
    /\ ~listed.called
    /\ listed' = [listed EXCEPT !.called = TRUE] @@ [ret |-> FromList(listed.value)]
    /\ UNCHANGED <<copied, chart, literal, previous, download>>

NextFromList == from_list

SpecFromList == InitFromList /\ [][NextFromList]_vars

----------------------------------------------------------------------------
(* Claims about Chart._copy_dict_key *)

SpecialKeys == {"data", "points", "series"}

\* other's current value for the key of the call, None when other has no such key
CurrentOfOther ==
    IF copied.key \in DOMAIN copied.other.v THEN copied.other.v[copied.key] ELSE NoneV

OriginalValue == copied.original.v[copied.key]

\* C1: with preserve_data left at its default, for key 'data' and for key 'points'
\* the value returned is exactly other's current value for that key (None when
\* other has no such key), whatever original holds and whatever overwrite is.
C1_DataAndPointsPreserved ==
    (/\ copied.called
     /\ copied.key \in {"data", "points"}
     /\ "preserve_data" \notin DOMAIN copied.kwargs)
        => copied.ret.val = CurrentOfOther

\* C1's case: 'points' is set on both sides to different values, overwrite is on,
\* and other's value came back
C1_Witness ==
    /\ copied.called
    /\ copied.key = "points"
    /\ copied.kwargs = <<>>
    /\ copied.overwrite
    /\ OriginalValue = ListV(<<IntV(1), IntV(2)>>)
    /\ CurrentOfOther = ListV(<<IntV(2)>>)
    /\ copied.ret.val = ListV(<<IntV(2)>>)

\* C2 (as claimed): for key 'series' with preserve_data on, whenever other holds a
\* non-empty list of series the value returned is a list of series, and every
\* series of other that has data is found in it with that data.
C2_SeriesDataPreserved ==
    (/\ copied.called
     /\ copied.key = "series"
     /\ PreserveData(copied.kwargs)
     /\ IsList(CurrentOfOther)
     /\ Len(CurrentOfOther.v) > 0)
        => /\ IsList(copied.ret.val)
           /\ \A j \in 1..Len(CurrentOfOther.v) :
                LET kept == CurrentOfOther.v[j]
                IN  "data" \in DOMAIN kept.v =>
                        \E i \in 1..Len(copied.ret.val.v) :
                            LET got == copied.ret.val.v[i]
                            IN  /\ IsDict(got)
                                /\ "data" \in DOMAIN got.v
                                /\ got.v["name"] = kept.v["name"]
                                /\ got.v["data"] = kept.v["data"]

\* C3 (as claimed): with preserve_data off, for key 'data' holding a list in
\* original the value returned is the list of original's items, in order, whatever
\* other holds and whatever overwrite is.
C3_DataOverwritten ==
    (/\ copied.called
     /\ copied.key = "data"
     /\ ~PreserveData(copied.kwargs)
     /\ IsList(OriginalValue))
        => copied.ret.val = OriginalValue

\* other holds a dict wherever the call recurses into a dict of original
RECURSIVE Covered(_, _, _)
Covered(original_value, other_value, preserve_data) ==
    /\ IsDict(other_value)
    /\ \A k \in DOMAIN original_value.v :
        (/\ IsDict(original_value.v[k])
         /\ ~(k \in {"data", "points"} /\ preserve_data))
            => /\ k \in DOMAIN other_value.v
               /\ Covered(original_value.v[k], other_value.v[k], preserve_data)

\* result is a dict with original's keys whose leaves, outside the special keys,
\* are original's leaves at every depth
RECURSIVE LeavesFromOriginal(_, _)
LeavesFromOriginal(original_value, result) ==
    /\ IsDict(result)
    /\ DOMAIN result.v = DOMAIN original_value.v
    /\ \A k \in DOMAIN original_value.v :
        IF k \in SpecialKeys THEN TRUE
        ELSE IF IsDict(original_value.v[k])
        THEN LeavesFromOriginal(original_value.v[k], result.v[k])
        ELSE result.v[k] = original_value.v[k]

\* C4: with overwrite on, for a key other than 'data', 'points' and 'series' a
\* scalar or list value of original is what the call returns, whatever other
\* holds; for a dict value, when other holds a dict there (and at every dict
\* beneath it) the call returns a dict whose leaves are original's, and whenever
\* it returns at all the leaves are original's.
C4_OverwriteTakesOriginal ==
    (/\ copied.called
     /\ copied.overwrite
     /\ copied.key \notin SpecialKeys)
        => IF ~IsDict(OriginalValue)
           THEN copied.ret.val = OriginalValue
           ELSE IsDict(CurrentOfOther) =>
                /\ Covered(OriginalValue, CurrentOfOther, PreserveData(copied.kwargs))
                        => ~IsRaised(copied.ret.val)
                /\ ~IsRaised(copied.ret.val)
                        => LeavesFromOriginal(OriginalValue, copied.ret.val)

\* C4's case: a leaf two dicts down is set differently in other and original's
\* came back, beside a scalar leaf one level down
C4_Witness ==
    /\ copied.called
    /\ copied.overwrite
    /\ copied.key = "title"
    /\ OriginalValue =
        DictV([style |-> DictV([text |-> ListV(<<IntV(1)>>)]), text |-> IntV(1)])
    /\ CurrentOfOther =
        DictV([style |-> DictV([text |-> ListV(<<IntV(2)>>)]), text |-> IntV(2)])
    /\ copied.ret.val = OriginalValue

\* C5 (as claimed): with overwrite off, for a key other than 'data', 'points' and
\* 'series' that other has set (present and not None) the value returned is
\* other's value.
C5_SetValuesKept ==
    (/\ copied.called
     /\ ~copied.overwrite
     /\ copied.key \notin SpecialKeys
     /\ copied.key \in DOMAIN copied.other.v
     /\ ~IsNone(CurrentOfOther))
        => copied.ret.val = CurrentOfOther

\* C6 (as claimed): the call returns a value instead of raising, for every
\* original tree and every other tree.
C6_NeverRaises ==
    copied.called => ~IsRaised(copied.ret.val)

\* the number of keys in a configuration tree: those of a dict, of the dicts under
\* them and of the dicts in its lists
RECURSIVE NumKeys(_)
RECURSIVE KeysIn(_, _)
KeysIn(todo, f) ==
    IF todo = {} THEN 0
    ELSE LET k == CHOOSE x \in todo : TRUE
         IN  NumKeys(f[k]) + KeysIn(todo \ {k}, f)

NumKeys(value) ==
    IF IsDict(value) THEN Cardinality(DOMAIN value.v) + KeysIn(DOMAIN value.v, value.v)
    ELSE IF IsList(value) THEN KeysIn(DOMAIN value.v, value.v)
    ELSE 0

\* the nesting depth of the dicts of a configuration tree
RECURSIVE Height(_)
RECURSIVE HeightIn(_, _)
HeightIn(todo, f) ==
    IF todo = {} THEN 0
    ELSE LET k == CHOOSE x \in todo : TRUE
         IN  Max(Height(f[k]), HeightIn(todo \ {k}, f))

Height(value) ==
    IF IsDict(value) THEN 1 + HeightIn(DOMAIN value.v, value.v)
    ELSE IF IsList(value) THEN HeightIn(DOMAIN value.v, value.v)
    ELSE 0

\* C10: a call that does not raise makes no more recursive calls than original
\* has keys (each dict of original, each matched series item included, is entered
\* at most once) and nests them no deeper than original's dicts nest.
C10_SinglePass ==
    (copied.called /\ ~IsRaised(copied.ret.val))
        => /\ copied.ret.calls <= NumKeys(copied.original)
           /\ copied.ret.depth < Height(copied.original)

\* C10's case: two equal series of original are both matched against the one
\* series of other, and each is entered once
C10_Witness ==
    /\ copied.called
    /\ copied.key = "series"
    /\ PreserveData(copied.kwargs)
    /\ IsList(OriginalValue) /\ Len(OriginalValue.v) = 2
    /\ OriginalValue.v[1] = OriginalValue.v[2]
    /\ IsList(CurrentOfOther) /\ Len(CurrentOfOther.v) = 1
    /\ CurrentOfOther.v[1] = OriginalValue.v[1]
    /\ ~IsRaised(copied.ret.val)
    /\ copied.ret.calls = 4
    /\ copied.ret.depth = 1

----------------------------------------------------------------------------
(* Claims about Chart.to_js_literal *)

\* the chart-construction expression of a returned string: what it holds from its
\* first 'new Highcharts.chart(' on
ConstructionOf(out) ==
    LET starts == {i \in 1..Len(out) : out[i] = "new Highcharts.chart("}
    IN  IF starts = {} THEN <<>>
        ELSE SubSeq(out, CHOOSE i \in starts : \A j \in starts : i <= j, Len(out))

SameArguments(a, b) ==
    /\ a.container = b.container
    /\ a.options = b.options
    /\ a.callback = b.callback

\* C7: with variable_name set the string returned is 'var <name> = ' followed by
\* the construction expression; with variable_name None (an empty name is stored
\* as None) it is the construction expression alone, with no assignment in it; and
\* two calls with the same container, options and callback return the same
\* construction expression whatever their variable_name.
C7_AssignmentPrefix ==
    literal.called =>
        /\ IF ~IsNone(literal.chart.variable_name)
           THEN /\ Len(literal.out) > 3
                /\ SubSeq(literal.out, 1, 3) = <<"var ", literal.chart.variable_name.v, " = ">>
                /\ SubSeq(literal.out, 4, Len(literal.out)) = ConstructionOf(literal.out)
           ELSE /\ literal.out = ConstructionOf(literal.out)
                /\ \A i \in 1..Len(literal.out) : literal.out[i] # "var "
        /\ literal.out # <<>>
        /\ literal.out[Len(literal.out)] = ");"
        /\ (previous.called /\ SameArguments(previous.chart, literal.chart))
                => ConstructionOf(previous.out) = ConstructionOf(literal.out)

\* C7's case: the same chart rendered without and then with a variable name
C7_Witness ==
    /\ literal.called
    /\ previous.called
    /\ previous.chart.variable_name = NoneV
    /\ literal.chart.variable_name = StrV("chart1")
    /\ literal.chart.container = StrV("target")
    /\ literal.chart.options = OptionsObject
    /\ literal.chart.callback = CallbackObject
    /\ SameArguments(previous.chart, literal.chart)
    /\ literal.out = <<"var ", "chart1", " = ">> \o previous.out
    /\ previous.out[1] = "new Highcharts.chart("

----------------------------------------------------------------------------
(* Claims about Chart.download_chart *)

\* C8 (as claimed): a server_instance that is neither None nor an ExportServer
\* makes the call raise HighchartsValueError and issue no export request; only
\* None leads to ExportServer.get_chart and only an ExportServer instance has its
\* request_chart invoked.
C8_ServerInstanceValidated ==
    download.called =>
        /\ (~IsNone(download.server_instance) /\ ~IsExportServer(download.server_instance))
                => /\ download.did.raised = "HighchartsValueError"
                   /\ download.did.invoked = ""
        /\ download.did.invoked = "ExportServer.get_chart"
                => IsNone(download.server_instance)
        /\ download.did.invoked = "server_instance.request_chart"
                => IsExportServer(download.server_instance)

----------------------------------------------------------------------------
(* Claims about ArcDiagramData.from_list *)

\* the items from_list walks over: those of a list, or the one value wrapped
ItemsOf(value) == IF IsList(value) THEN value.v ELSE <<value>>

\* an item that is a data point or has a shape from_list coerces
Coercable(item) ==
    \/ item.t \in {"point", "dict", "none", "EnforcedNullType", "int"}
    \/ (IsList(item) /\ Len(item.v) = 3)

\* the data point that stands for an item in the returned collection
StandsFor(point, item) ==
    /\ point.t = "point"
    /\ IF item.t = "point" THEN point = item
       ELSE IF item.t = "dict" THEN point.v = item.v
       ELSE IF item.t \in {"none", "EnforcedNullType"} THEN point.v = [y |-> NoneV]
       ELSE IF item.t = "int" THEN point.v = [y |-> item]
       ELSE /\ point.v["from_"] = item.v[1]
            /\ point.v["to"] = item.v[2]
            /\ point.v["weight"] = item.v[3]

----------------------------------------------------------------------------
(* Further claims about Chart.to_js_literal and Chart._copy_dict_key *)

\* the arguments of a chart that are set, in the order container, options, callback
ArgumentsOf(c) ==
    (IF IsNone(c.container) THEN <<>> ELSE << <<"renderTo = '", c.container.v, "'">> >>)
        \o (IF IsNone(c.options) THEN <<>> ELSE << <<"options = ", c.options.v>> >>)
        \o (IF IsNone(c.callback) THEN <<>> ELSE << <<"callback = ", c.callback.v>> >>)

\* arguments with one ',\n' between each two consecutive ones and none after the last
RECURSIVE Separated(_)
Separated(arguments) ==
    IF arguments = <<>> THEN <<>>
    ELSE IF Len(arguments) = 1 THEN Head(arguments)
    ELSE Head(arguments) \o <<",\n">> \o Separated(Tail(arguments))

\* C11 (as claimed): for each of the 8 combinations of container, options and
\* callback being set or not, the construction expression is
\* 'new Highcharts.chart(' followed by the arguments that are set, in the order
\* container, options, callback, with exactly one ',\n' between each two
\* consecutive arguments and none after the last, followed by ');'.
C11_WellFormedArguments ==
    literal.called =>
        ConstructionOf(literal.out) =
            <<"new Highcharts.chart(">> \o Separated(ArgumentsOf(literal.chart)) \o <<");">>

\* C12 (as claimed): with overwrite off, for a key other than 'data', 'points' and
\* 'series' whose value in other is absent or None, the value returned is
\* original's value, for a scalar leaf and for a list-valued leaf alike.
C12_UnsetValuesFilled ==
    (/\ copied.called
     /\ ~copied.overwrite
     /\ copied.key \notin SpecialKeys
     /\ IsNone(CurrentOfOther)
     /\ ~IsDict(OriginalValue))
        => copied.ret.val = OriginalValue

====
